---- MODULE Spec2Model ----
(***************************************************************************)
(* Podcast transcriber (api_server.py): the Task Registry                  *)
(* (background_tasks), the Status Store (status.json), the transcription   *)
(* worker threads, the request handlers, the feed listing and the          *)
(* normalisation of the provider's result.                                 *)
(*                                                                         *)
(* Text is a sequence of one-character strings.  A JSON value is a tagged  *)
(* record: [t |-> "null"], [t |-> "str", v |-> text], [t |-> "num", v],     *)
(* [t |-> "list", v |-> sequence], [t |-> "dict", v |-> function on keys]. *)
(* Time is counted in whole seconds.                                       *)
(***************************************************************************)
EXTENDS Integers, Sequences, FiniteSets, TLC

VARIABLES
    now,               \* the wall clock, in seconds (time.time, datetime.now)
    background_tasks,  \* the Task Registry: task id -> Task Record
    status_file,       \* status.json: missing, empty, garbled or a mapping
    workers,           \* the worker threads started by POST /transcribe
    fs,                \* the episode folders: audio.mp3 and transcript.txt
    resp,              \* the answer of the POST /transcribe handled in this step
    faults,            \* network and file calls that have failed so far
    feeds,             \* the configured feeds as the feed parser returns them
    listing,           \* the answer of the GET /episodes handled in this step
    data,              \* a provider response handed to the normaliser
    normalized         \* the outcome of normalising data

vars == <<now, background_tasks, status_file, workers, fs, resp, faults, feeds,
          listing,
          data, normalized>>

(***************************************************************************)
(* Bounds of the model.                                                    *)
(***************************************************************************)
MaxWorkers == 2     \* worker threads started in one run
MaxFaults == 1      \* network and file calls that fail in one run
MaxSecs == 1        \* one-second clock steps within an hour
MaxHours == 1       \* one-hour clock steps
MaxEntries == 3     \* entries of the feed given to GET /episodes
MaxUtterances == 2  \* utterances or segments of a provider result
MaxPairEntries == 2 \* entries of each feed when two feeds are given
MaxIdEntries == 2   \* entries of the feed whose episode ids are compared

(***************************************************************************)
(* Program constants.                                                      *)
(***************************************************************************)
Retention == 3600   \* cleanup_old_tasks: seconds a finished task is kept

(***************************************************************************)
(* Text helpers.                                                           *)
(***************************************************************************)
NL == "\n"
Whitespace == {" ", NL}

T_(s) == [t |-> "str", v |-> s]
JNull == [t |-> "null"]
JNum(n) == [t |-> "num", v |-> n]
JList(l) == [t |-> "list", v |-> l]
JDict(d) == [t |-> "dict", v |-> d]
EmptyDict == JDict(<<>>)

\* str.strip(): leading and trailing whitespace removed
RECURSIVE LStrip(_)
LStrip(s) ==
    IF s # <<>> /\ Head(s) \in Whitespace THEN LStrip(Tail(s)) ELSE s

RECURSIVE RStrip(_)
RStrip(s) ==
    IF s # <<>> /\ s[Len(s)] \in Whitespace
    THEN RStrip(SubSeq(s, 1, Len(s) - 1))
    ELSE s

Strip(s) == RStrip(LStrip(s))

\* the decimal digits of a natural number
RECURSIVE Digits(_)
Digits(n) ==
    LET d == <<"0", "1", "2", "3", "4", "5", "6", "7", "8", "9">>[(n % 10) + 1]
    IN  IF n < 10 THEN <<d>> ELSE Digits(n \div 10) \o <<d>>

\* f"{n:0wd}": zero-padded to at least w digits
RECURSIVE ZeroPad(_, _)
ZeroPad(s, w) == IF Len(s) < w THEN ZeroPad(<<"0">> \o s, w) ELSE s

PadNum(n, w) == ZeroPad(Digits(n), w)

\* "".join(lines)
RECURSIVE Join(_)
Join(lines) == IF lines = <<>> THEN <<>> ELSE Head(lines) \o Join(Tail(lines))

\* bool(x) of a JSON value
Truthy(x) ==
    CASE x.t = "null" -> FALSE
      [] x.t = "dict" -> DOMAIN x.v # {}
      [] x.t = "num" -> x.v # 0
      [] OTHER -> x.v # <<>>

\* "k" in d, for a dict d
HasKey(d, k) == d.t = "dict" /\ k \in DOMAIN d.v

\* d.get(k, default)
Get(d, k, default) == IF k \in DOMAIN d.v THEN d.v[k] ELSE default

\* str(x) inside an f-string, for the values a speaker field takes
Str(x) == IF x.t = "num" THEN Digits(x.v) ELSE x.v

(***************************************************************************)
(* transcribe_with_gladia: the normalisation of a polled response.         *)
(***************************************************************************)
Return(v) == [kind |-> "return", value |-> v]
Raise(m) == [kind |-> "raise", msg |-> m]
Continue == [kind |-> "continue"]
\* nothing handed to the normaliser yet
NotNormalized == [kind |-> "none"]

S_Speaker == <<"S", "p", "e", "a", "k", "e", "r", " ">>
S_Unknown == <<"U", "n", "k", "n", "o", "w", "n">>

RECURSIVE Pow2(_)
Pow2(n) == IF n = 0 THEN 1 ELSE 2 * Pow2(n - 1)

\* 2^n modulo q
RECURSIVE Pow2Mod(_, _)
Pow2Mod(n, q) == IF n = 0 THEN 1 % q ELSE (2 * Pow2Mod(n - 1, q)) % q

\* floor(log2(n)) of n >= 1
RECURSIVE Log2(_)
Log2(n) == IF n < 2 THEN 0 ELSE 1 + Log2(n \div 2)

\* the least n with k * 2^n >= 1000, for 1 <= k
RECURSIVE ShiftsToOne(_)
ShiftsToOne(k) == IF k >= 1000 THEN 0 ELSE 1 + ShiftsToOne(2 * k)

\* The start time is a float: of k milliseconds, the double x nearest to
\* k/1000 seconds.  Exponent(k) is floor(log2(k/1000)), so that x is a
\* multiple n * 2^-t of 2^-t with t = 52 - Exponent(k) and n of 53 bits.
Exponent(k) == IF k >= 1000 THEN Log2(k \div 1000) ELSE 0 - ShiftsToOne(k)

\* 1000 * n - k * 2^t: the error x - k/1000 in units of 2^-t / 1000, from
\* the remainder of k * 2^t by 1000 (round to nearest, ties to even)
RoundingError(k) ==
    LET t == 52 - Exponent(k)
        low == ((k % 2000) * Pow2Mod(t, 2000)) % 2000   \* k * 2^t mod 2000
        r == low % 1000
        odd == low >= 1000                              \* the quotient is odd
    IN  IF r < 500 \/ (r = 500 /\ ~odd) THEN 0 - r ELSE 1000 - r

\* int((start_time % 1) * 1000) of line 160 on that double.  x % 1 is exact:
\* m/1000 + d * 2^-t / 1000 with m = k % 1000 and d = RoundingError(k).  The
\* product by 1000 is the double nearest to m + d * 2^-t; below m (d < 0) it
\* is m only when d * 2^-t is within half a unit in the last place of the
\* doubles under m, and int() cuts anything less down to m - 1.
Milliseconds(k) ==
    LET m == k % 1000
        d == RoundingError(k)
        e == Log2(m)
        half == e - Exponent(k) - (IF m = Pow2(e) THEN 2 ELSE 1)
    IN  IF m = 0 \/ d >= 0 THEN m
        ELSE IF half >= 0 /\ (half >= 9 \/ 0 - d <= Pow2(half)) THEN m
        ELSE m - 1

\* f"{minutes:02d}:{seconds:02d}.{milliseconds:03d}" of a start time, which
\* the model holds in whole milliseconds (x // 60 and x % 60 are exact and
\* the whole seconds of x are those of the start time)
Timestamp(ms) ==
    LET minutes == (ms \div 1000) \div 60
        seconds == (ms \div 1000) % 60
        milliseconds == Milliseconds(ms)
    IN  PadNum(minutes, 2) \o <<":">> \o PadNum(seconds, 2) \o <<".">>
            \o PadNum(milliseconds, 3)

\* the line appended for one utterance (nothing when its text is blank)
UtteranceBlock(u) ==
    LET speaker == Get(u, "speaker", T_(S_Unknown))
        text == Get(u, "text", T_(<<>>))
        start_time == Get(u, "start", JNum(0))
    IN  IF Strip(text.v) # <<>>
        THEN S_Speaker \o Str(speaker) \o <<" ", "|", " ">>
                 \o Timestamp(start_time.v) \o <<NL>> \o text.v \o <<NL, NL>>
        ELSE <<>>

\* the line appended for one segment (nothing when its text is blank)
SegmentLine(g) ==
    LET speaker == Get(g, "speaker", T_(S_Unknown))
        text == Get(g, "text", T_(<<>>))
    IN  IF Strip(text.v) # <<>>
        THEN <<"[">> \o Str(speaker) \o <<"]", ":", " ">> \o text.v \o <<NL>>
        ELSE <<>>

\* every item is a dict whose text, when given, is a string
WellFormedItems(l) ==
    /\ l.t = "list"
    /\ \A i \in 1..Len(l.v) :
          /\ l.v[i].t = "dict"
          /\ Get(l.v[i], "text", T_(<<>>)).t = "str"

RenderUtterances(l) ==
    IF WellFormedItems(l)
    THEN Return(T_(Strip(Join([i \in 1..Len(l.v) |-> UtteranceBlock(l.v[i])]))))
    ELSE Raise("AttributeError")

RenderSegments(l) ==
    IF WellFormedItems(l)
    THEN Return(T_(Strip(Join([i \in 1..Len(l.v) |-> SegmentLine(l.v[i])]))))
    ELSE Raise("AttributeError")

\* the branch taken when result["transcription"] is a dict
NestedShapes(transcription_data) ==
    IF HasKey(transcription_data, "utterances")
    THEN RenderUtterances(transcription_data.v["utterances"])
    ELSE IF HasKey(transcription_data, "full_transcript")
    THEN Return(transcription_data.v["full_transcript"])
    ELSE IF HasKey(transcription_data, "segments")
    THEN RenderSegments(transcription_data.v["segments"])
    ELSE Continue   \* no branch returns or raises: the loop goes on to sleep

\* the body of `if status == "done":`
NormalizeDone(d) ==
    IF ~HasKey(d, "result") THEN Raise("'result'")
    ELSE LET result == d.v["result"] IN
    IF Truthy(result) /\ HasKey(result, "transcription")
    THEN LET transcription_data == result.v["transcription"] IN
         IF transcription_data.t = "dict"
         THEN NestedShapes(transcription_data)
         ELSE Return(transcription_data)
    ELSE IF Truthy(result) /\ HasKey(result, "utterances")
    THEN RenderUtterances(result.v["utterances"])
    ELSE IF Truthy(result) /\ HasKey(result, "segments")
    THEN RenderSegments(result.v["segments"])
    ELSE Raise("No transcription data found in result.")

\* what one iteration of the poll loop does with the response it got
PollOutcome(d) ==
    LET status == d.v["status"].v IN
    IF status = "done" THEN NormalizeDone(d)
    ELSE IF status = "error"
    THEN Raise("Transcription failed: " \o
               (IF HasKey(d, "error_code") THEN ToString(d.v["error_code"].v)
                ELSE "Unknown error"))
    ELSE Continue

(***************************************************************************)
(* Episode identity and the feed listing (get_episodes, and the lookup of  *)
(* start_transcription).  A feed is what feedparser.parse returned for it: *)
(* [name, rss, entries]; an entry is a dict with the optional keys id,     *)
(* title, published, published_parsed and enclosures.  A date is a number  *)
(* of seconds; an enclosure type is the pair <<major, minor>>.             *)
(***************************************************************************)
Day == 86400
T0 == 10 * Day      \* the clock when the server starts

\* a text as one string
RECURSIVE StrOf(_)
StrOf(s) == IF s = <<>> THEN "" ELSE Head(s) \o StrOf(Tail(s))

\* hashlib.md5(x.encode()).hexdigest()[:n], kept symbolic
Md5Hex(x, n) == "md5" \o ToString(n) \o "(" \o x \o ")"

S_UnknownTitle == <<"U", "n", "k", "n", "o", "w", "n", " ", "T", "i", "t", "l", "e">>

\* entry.title if hasattr(entry, 'title') else "Unknown Title"
EntryTitle(entry) == Get(entry, "title", T_(S_UnknownTitle)).v

\* f"{feed_hash}_{episode_base}"
EpisodeId(rss, entry) ==
    LET base_id == Get(entry, "id", T_("")).v
        episode_base == IF base_id # "" THEN base_id
                        ELSE Md5Hex(StrOf(EntryTitle(entry)), 12)
        feed_hash == Md5Hex(rss, 8)
    IN  feed_hash \o "_" \o episode_base

\* the enclosure loop: the href of the first audio enclosure ("" when there
\* is none); an enclosure without a type raises AttributeError
RECURSIVE FirstAudio(_)
FirstAudio(enclosures) ==
    IF enclosures = <<>> THEN [exc |-> FALSE, url |-> ""]
    ELSE IF ~HasKey(Head(enclosures), "type") THEN [exc |-> TRUE, url |-> ""]
    ELSE IF Head(enclosures).v["type"][1] = "audio"
    THEN [exc |-> FALSE, url |-> Head(enclosures).v["href"]]
    ELSE FirstAudio(Tail(enclosures))

EntryAudio(entry) == FirstAudio(Get(entry, "enclosures", JList(<<>>)).v)

\* the sort key x.get('published_parsed', (0,0,0,0,0,0,0,0,0))
SortKey(entry) == Get(entry, "published_parsed", JNum(0))

\* sorted(..., reverse=True) keeps the order of equal keys: x goes after the
\* items whose key is at least its own
RECURSIVE InsertDesc(_, _, _)
InsertDesc(sorted, x, k) ==
    IF sorted # <<>> /\ Head(sorted).k >= k
    THEN <<Head(sorted)>> \o InsertDesc(Tail(sorted), x, k)
    ELSE <<[k |-> k, x |-> x]>> \o sorted

RECURSIVE SortPairs(_, _)
SortPairs(keys, items) ==
    IF items = <<>> THEN <<>>
    ELSE InsertDesc(SortPairs(SubSeq(keys, 1, Len(keys) - 1),
                              SubSeq(items, 1, Len(items) - 1)),
                    items[Len(items)], keys[Len(keys)])

\* items sorted by their numeric keys, largest first, stable
SortedDesc(keys, items) ==
    LET ps == SortPairs(keys, items) IN [i \in 1..Len(ps) |-> ps[i].x]

\* comparing the keys raises TypeError: two or more keys, one of them None
SortRaises(keys) ==
    Len(keys) >= 2 /\ \E i \in 1..Len(keys) : keys[i].t = "null"

\* the entry's parsed date: None when the key is absent or falsy
PubDateParsed(entry) ==
    IF HasKey(entry, "published_parsed") /\ entry.v["published_parsed"].t = "num"
    THEN entry.v["published_parsed"] ELSE JNull

EpisodeData(feed, entry, status, audio_url) ==
    LET episode_id == EpisodeId(feed.rss, entry) IN
    [id |-> episode_id,
     podcast_name |-> feed.name,
     title |-> EntryTitle(entry),
     pub_date |-> Get(entry, "published", T_("")).v,
     pub_date_parsed |-> PubDateParsed(entry),
     audio_url |-> audio_url,
     status |-> IF episode_id \in DOMAIN status THEN status[episode_id].status
                ELSE "pending"]

\* `for entry in sorted_entries:` what the loop appends; a break and an
\* exception both end it, keeping what was appended before
RECURSIVE EntryLoop(_, _, _, _)
EntryLoop(feed, entries, status, cutoff_date) ==
    IF entries = <<>> THEN <<>>
    ELSE LET entry == Head(entries)
             audio == EntryAudio(entry)
             pub_date_parsed == PubDateParsed(entry)
         IN  IF audio.exc THEN <<>>
             ELSE IF audio.url = ""
             THEN EntryLoop(feed, Tail(entries), status, cutoff_date)
             ELSE IF pub_date_parsed.t = "num" /\ pub_date_parsed.v < cutoff_date
             THEN <<>>
             ELSE <<EpisodeData(feed, entry, status, audio.url)>>
                      \o EntryLoop(feed, Tail(entries), status, cutoff_date)

\* the numbers compared in place of the keys (the absent date counts as 0)
KeyNumbers(keys) ==
    [i \in 1..Len(keys) |-> IF keys[i].t = "num" THEN keys[i].v ELSE 0]

\* lines 333-337 and the entry loop, on the keys of the entries
SortAndLoop(feed, keys, status, cutoff_date) ==
    IF SortRaises(keys) THEN <<>>
    ELSE EntryLoop(feed, SortedDesc(KeyNumbers(keys), feed.entries),
                   status, cutoff_date)

\* the body of `for feed in feeds:` for one feed, with its try/except
FeedEpisodes(feed, status, cutoff_date) ==
    IF feed.entries = <<>> THEN <<>>
    ELSE SortAndLoop(feed,
                     [i \in 1..Len(feed.entries) |-> SortKey(feed.entries[i])],
                     status, cutoff_date)

\* all_episodes after the loop over the feeds
RECURSIVE AllEpisodes(_, _, _)
AllEpisodes(fds, status, cutoff_date) ==
    IF fds = <<>> THEN <<>>
    ELSE FeedEpisodes(Head(fds), status, cutoff_date)
             \o AllEpisodes(Tail(fds), status, cutoff_date)

\* all_episodes[:limit], for a limit that is not negative
Truncate(s, limit) == SubSeq(s, 1, IF limit < Len(s) THEN limit ELSE Len(s))

\* lines 395-400: the final sort, which raises TypeError outside every try
\* block, and the limit
SortAndLimit(all_episodes, keys, limit) ==
    IF SortRaises(keys)
    THEN [code |-> 500, error |-> "TypeError",
          all_episodes |-> all_episodes, episodes |-> <<>>]
    ELSE [code |-> 200, error |-> "",
          all_episodes |-> all_episodes,
          episodes |-> Truncate(SortedDesc(KeyNumbers(keys), all_episodes), limit)]

DateKeys(all_episodes) ==
    [i \in 1..Len(all_episodes) |-> all_episodes[i].pub_date_parsed]

WithKeys(all_episodes, limit) ==
    SortAndLimit(all_episodes, DateKeys(all_episodes), limit)

\* get_episodes after cleanup_old_tasks and load_status: all_episodes as the
\* loop over the feeds leaves it, and the response
ListEpisodes(fds, status, limit, days, current) ==
    WithKeys(AllEpisodes(fds, status, current - days * Day), limit)

(***************************************************************************)
(* The files and the registry.                                             *)
(***************************************************************************)
\* f with f[k] = v
Put(f, k, v) == [x \in DOMAIN f \cup {k} |-> IF x = k THEN v ELSE f[x]]

\* f without the keys in ks
Without(f, ks) == [x \in DOMAIN f \ ks |-> f[x]]

Letters == {"a", "b", "c", "d", "e", "f", "g", "h", "i", "j", "k", "l", "m",
            "n", "o", "p", "q", "r", "s", "t", "u", "v", "w", "x", "y", "z",
            "A", "B", "C", "D", "E", "F", "G", "H", "I", "J", "K", "L", "M",
            "N", "O", "P", "Q", "R", "S", "T", "U", "V", "W", "X", "Y", "Z"}
DigitChars == {"0", "1", "2", "3", "4", "5", "6", "7", "8", "9"}

\* "".join(c if c.isalnum() or c in ("_", "-") else "_" for c in s)
sanitize_filename(s) ==
    [i \in 1..Len(s) |->
        IF s[i] \in Letters \cup DigitChars \cup {"_", "-"} THEN s[i] ELSE "_"]

\* os.path.join(EPISODES_DIR, sanitize_filename(f"{podcast_name}_{title}"))
FolderPath(episode) ==
    "episodes/" \o StrOf(sanitize_filename(episode.podcast_name \o <<"_">>
                                               \o episode.title))

\* status.json does not exist yet
MissingFile == [state |-> "missing", content |-> <<>>]
\* just opened for writing: truncated, nothing written yet
EmptyFile == [state |-> "empty", content |-> <<>>]
\* a shorter document written over a longer one
GarbledFile == [state |-> "garbled", content |-> <<>>]
\* json.dump under a lock held since the load: the records the file holds
\* are kept, and those of status put over them
MergedFile(status) ==
    [state |-> "ok",
     content |-> [k \in DOMAIN status_file.content \cup DOMAIN status |->
                     IF k \in DOMAIN status THEN status[k]
                     ELSE status_file.content[k]]]
\* json.dump(status, f): the file holds status and nothing else
WholeFile(status) == [state |-> "ok", content |-> status]

\* load_status(): the mapping, or JSONDecodeError on a file that holds no
\* complete document
load_status ==
    CASE status_file.state = "missing" -> [raises |-> FALSE, status |-> <<>>]
      [] status_file.state = "ok" -> [raises |-> FALSE, status |-> status_file.content]
      [] OTHER -> [raises |-> TRUE, status |-> <<>>]

\* the ids removed with >= in place of > at line 47
TasksToRemoveAtAge(current_time) ==
    {task_id \in DOMAIN background_tasks :
        /\ background_tasks[task_id].status \in {"completed", "error"}
        /\ current_time - background_tasks[task_id].created_at >= Retention}

\* cleanup_old_tasks(): the ids it removes when the clock reads current_time
TasksToRemove(current_time) ==
    {task_id \in DOMAIN background_tasks :
        /\ background_tasks[task_id].status \in {"completed", "error"}
        /\ current_time - background_tasks[task_id].created_at > Retention}

cleanup_old_tasks(current_time) ==
    Without(background_tasks, TasksToRemove(current_time))

\* The clock is read by start_transcription and by cleanup_old_tasks only:
\* the time that passed since it was last read is an input of these two.
\* It passes in retention windows, MaxHours of them, and then in seconds.
Elapsed ==
    {dt \in {0, 1, Retention} :
        /\ dt = Retention => now - T0 < MaxHours * Retention
        /\ dt = 1 => /\ now - T0 >= MaxHours * Retention
                     /\ now - T0 < MaxHours * Retention + MaxSecs}

(***************************************************************************)
(* The feeds of the running server (feeds.json as the parser returns it).  *)
(***************************************************************************)
AudioEnclosure(href) == JDict([type |-> <<"audio", "mpeg">>, href |-> href])
ImageEnclosure(href) == JDict([type |-> <<"image", "png">>, href |-> href])

Catalog ==
    <<[name |-> <<"P", "o", "d">>, rss |-> "http://pod/rss",
       entries |-> <<
           JDict([id |-> T_("g1"), title |-> T_(<<"a", " ", "b">>),
                  published_parsed |-> JNum(9 * Day),
                  enclosures |-> JList(<<AudioEnclosure("http://pod/1.mp3")>>)]),
           JDict([title |-> T_(<<"c">>),
                  enclosures |-> JList(<<ImageEnclosure("http://pod/2.png"),
                                         AudioEnclosure("http://pod/2.mp3")>>)]),
           JDict([id |-> T_("g3"), title |-> T_(<<"d">>),
                  enclosures |-> JList(<<ImageEnclosure("http://pod/3.png")>>)])
       >>]>>

\* the episode ids a client asks for: one per catalogue entry
RequestIds ==
    {EpisodeId(Catalog[1].rss, Catalog[1].entries[i]) :
        i \in 1..Len(Catalog[1].entries)}

\* lines 435-448: the same entry's id as start_transcription computes it,
\* with the title in place of the id
TitleEpisodeId(rss, entry) ==
    Md5Hex(rss, 8) \o "_" \o Md5Hex(StrOf(EntryTitle(entry)), 12)

\* lines 435-448: current_episode_id, as start_transcription computes it
CurrentEpisodeId(rss, entry) ==
    LET base_id == Get(entry, "id", T_("")).v
        title == EntryTitle(entry)
        episode_base == IF base_id # "" THEN base_id
                        ELSE Md5Hex(StrOf(title), 12)
        feed_hash == Md5Hex(rss, 8)
    IN  feed_hash \o "_" \o episode_base

\* start_transcription: the lookup of episode_id in the feeds
RECURSIVE FindInEntries(_, _, _)
FindInEntries(feed, entries, episode_id) ==
    IF entries = <<>> THEN [found |-> FALSE]
    ELSE LET entry == Head(entries)
             audio == EntryAudio(entry)
         IN  IF audio.exc THEN [found |-> FALSE]
             ELSE IF audio.url # "" /\ CurrentEpisodeId(feed.rss, entry) = episode_id
             THEN [found |-> TRUE,
                   episode |-> [id |-> episode_id,
                                podcast_name |-> feed.name,
                                title |-> EntryTitle(entry),
                                audio_url |-> audio.url]]
             ELSE FindInEntries(feed, Tail(entries), episode_id)

RECURSIVE FindEpisode(_, _)
FindEpisode(fds, episode_id) ==
    IF fds = <<>> THEN [found |-> FALSE]
    ELSE LET hit == FindInEntries(Head(fds), Head(fds).entries, episode_id)
         IN  IF hit.found THEN hit ELSE FindEpisode(Tail(fds), episode_id)

(***************************************************************************)
(* The request handlers.  resp is the answer of POST /transcribe and       *)
(* listing the answer of GET /episodes, each in the state the request      *)
(* leaves; the answers of the handlers that change nothing are operators.  *)
(***************************************************************************)
NoResp == [op |-> "none", arg |-> "", code |-> 0]
NoListing == [limit |-> 0, days |-> 0, code |-> 0, error |-> "",
              all_episodes |-> <<>>, episodes |-> <<>>]

\* f"transcribe_{episode_id}_{int(time.time())}"
TaskId(episode_id, time) == "transcribe_" \o episode_id \o "_" \o ToString(time)

NewWorker(episode, task_id) ==
    [pc |-> "start", task_id |-> task_id, episode |-> episode,
     handling |-> FALSE, exc |-> "", status |-> <<>>, transcript |-> JNull]

\* lines 469-470 with the completed test left out
NeverCompleted(status, episode_id) == FALSE

\* lines 469-470: episode_id in status and its record says completed
AlreadyCompleted(status, episode_id) ==
    /\ episode_id \in DOMAIN status
    /\ status[episode_id].status = "completed"

\* lines 465-489, on what the lookup found and what load_status gave
Accept(episode_id, dt, hit, loaded) ==
    LET answer(code) ==
            /\ resp' = [op |-> "transcribe", arg |-> episode_id, code |-> code]
            /\ dt = 0
            /\ UNCHANGED <<now, background_tasks, workers>>
    IN  IF ~hit.found THEN answer(404)
        ELSE IF loaded.raises THEN answer(500)
        ELSE IF AlreadyCompleted(loaded.status, episode_id) THEN answer(400)
        ELSE /\ Len(workers) < MaxWorkers
             /\ background_tasks' =
                    Put(background_tasks, TaskId(episode_id, now + dt),
                        [type |-> "transcribe", status |-> "pending",
                         message |-> "Starting...",
                         episode_title |-> hit.episode.title,
                         created_at |-> now + dt])
             /\ workers' = Append(workers,
                                  NewWorker(hit.episode,
                                            TaskId(episode_id, now + dt)))
             /\ now' = now + dt
             /\ resp' = [op |-> "transcribe", arg |-> episode_id, code |-> 200]

\* POST /transcribe/{episode_id}, dt seconds after the clock was last read
\* (a request that is turned down does not read the clock)
start_transcription(episode_id, dt) ==
    /\ Accept(episode_id, dt, FindEpisode(feeds, episode_id), load_status)
    /\ listing' = NoListing
    /\ UNCHANGED <<status_file, fs, faults, feeds, data, normalized>>

\* the answer of GET /episodes to the request with these parameters
Listing(limit, days, out) ==
    [limit |-> limit, days |-> days, code |-> out.code, error |-> out.error,
     all_episodes |-> out.all_episodes, episodes |-> out.episodes]

\* GET /episodes, dt seconds after the clock was last read: the sweep, then
\* load_status (JSONDecodeError leaves the handler), then the listing
get_episodes(limit, days, dt) ==
    /\ now' = now + dt
    /\ background_tasks' = cleanup_old_tasks(now + dt)
    /\ listing' =
           Listing(limit, days,
                   IF load_status.raises
                   THEN [code |-> 500, error |-> "JSONDecodeError",
                         all_episodes |-> <<>>, episodes |-> <<>>]
                   ELSE ListEpisodes(feeds, load_status.status, limit, days,
                                     now + dt))
    /\ resp' = NoResp
    /\ UNCHANGED <<status_file, workers, fs, faults, feeds, data, normalized>>

\* a handler that changes nothing
ReadOnly ==
    /\ resp' = NoResp
    /\ listing' = NoListing
    /\ UNCHANGED <<now, background_tasks, status_file, workers, fs, faults,
                   feeds, data, normalized>>

\* GET /task-status/{task_id}: the status code
TaskStatusCode(task_id) == IF task_id \notin DOMAIN background_tasks THEN 404 ELSE 200

get_task_status(task_id) == TaskStatusCode(task_id) \in {200, 404} /\ ReadOnly

\* GET /transcript/{episode_id}: the status code
TranscriptCode(episode_id) ==
    LET loaded == load_status IN
    IF loaded.raises THEN 500
    ELSE IF episode_id \notin DOMAIN loaded.status THEN 404
    ELSE IF loaded.status[episode_id].status # "completed" THEN 400
    ELSE IF loaded.status[episode_id].transcript_path
                \notin DOMAIN fs.transcript   \* os.path.exists
    THEN 404
    ELSE 200

\* lines 514-520: f.read() on the transcript_path of the record, for a
\* request that answers 200
TranscriptBody(episode_id) ==
    fs.transcript[load_status.status[episode_id].transcript_path]

get_transcript(episode_id) ==
    TranscriptCode(episode_id) \in {200, 400, 404, 500} /\ ReadOnly

\* GET /status: the status code
AllStatusCode == IF load_status.raises THEN 500 ELSE 200

get_all_status == AllStatusCode \in {200, 500} /\ ReadOnly

(***************************************************************************)
(* The transcription provider, as far as the poll loop sees it.            *)
(***************************************************************************)
Processing == JDict([status |-> T_("processing")])
DoneWith(result) == JDict([status |-> T_("done"), result |-> result])

S_hi == <<"h", "i">>

\* the terminal responses the provider gives in the running server
ProviderResults ==
    {DoneWith(JDict([transcription |-> JDict([full_transcript |-> T_(S_hi)])])),
     DoneWith(JDict([transcription |-> EmptyDict])),
     JDict([status |-> T_("error"), error_code |-> JNum(500)])}

(***************************************************************************)
(* The worker thread: transcribe_episode, statement by statement where     *)
(* another thread can come between.  Statements that touch different       *)
(* objects are taken together.                                             *)
(***************************************************************************)
\* an exception raised at a statement of the worker: inside the try block
\* it enters the except block, inside the except block it leaves the thread
Raised(w, msg) ==
    IF w.handling THEN [w EXCEPT !.pc = "escaped"]
    ELSE [w EXCEPT !.pc = "except", !.exc = msg, !.handling = TRUE]

KeyError(task_id) == "'" \o task_id \o "'"

\* a network or file call fails
Fault == faults < MaxFaults /\ faults' = faults + 1

TaskGone(i) == workers[i].task_id \notin DOMAIN background_tasks

\* background_tasks[task_id][k] = fields[k]
SetTask(i, fields) ==
    background_tasks' =
        [background_tasks EXCEPT ![workers[i].task_id] =
            [k \in DOMAIN @ |-> IF k \in DOMAIN fields THEN fields[k] ELSE @[k]]]

Goto(i, next) == workers' = [workers EXCEPT ![i].pc = next]

Throw(i, msg) == workers' = [workers EXCEPT ![i] = Raised(@, msg)]

\* the update of a record that is gone: KeyError
ThrowKeyError(i) ==
    /\ Throw(i, KeyError(workers[i].task_id))
    /\ UNCHANGED background_tasks

\* a worker step answers no request and leaves the clock and the feeds alone
WorkerFrame ==
    /\ resp' = NoResp
    /\ listing' = NoListing
    /\ UNCHANGED <<now, feeds, data, normalized>>

\* os.path.join(folder, "audio.mp3")
LocalPath(episode) == FolderPath(episode) \o "/audio.mp3"

\* the free bytes below which the disk is held to be full (line 88)
MinFree == 50 * 1024 * 1024

\* what shutil.disk_usage may answer for the free bytes
FreeSpace == {MinFree - 1, MinFree}

\* lines 85-91: below MinFree the RuntimeError of line 89 is raised inside
\* the try block, whose `except Exception` prints a warning and goes on
DiskCheck(free) ==
    IF free < MinFree
    THEN [raised |-> "Insufficient disk space", caught |-> TRUE]
    ELSE [raised |-> "", caught |-> FALSE]

\* the exception of a try block leaves it
Escapes(try) == try.raised # "" /\ ~try.caught

\* lines 231-250 up to the poll loop: the record is marked running, the
\* folder is made, the audio is downloaded unless it is there, uploaded and
\* submitted; the message follows the stage; free is the free space the
\* disk reports to download_audio
BeginWith(i, free) ==
    LET local_path == LocalPath(workers[i].episode)
        stage(message) == SetTask(i, [status |-> "running", message |-> message])
    IN  /\ workers[i].pc = "start"
        /\ IF TaskGone(i) THEN ThrowKeyError(i) /\ UNCHANGED <<faults, fs>>
           ELSE \/ /\ local_path \in fs.audio \/ ~Escapes(DiskCheck(free))
                   /\ stage("Transcribing audio...")
                   /\ fs' = [fs EXCEPT !.audio = @ \cup {local_path}]
                   /\ Goto(i, "poll")
                   /\ UNCHANGED faults
                \/ /\ Fault           \* os.makedirs (line 244)
                   /\ stage("Starting transcription...")
                   /\ Throw(i, "OSError")
                   /\ UNCHANGED fs
                \/ /\ Fault           \* requests.get (lines 93-94)
                   /\ local_path \notin fs.audio
                   /\ ~Escapes(DiskCheck(free))
                   /\ stage("Downloading audio...")
                   /\ Throw(i, "HTTPError")
                   /\ UNCHANGED fs
                \/ /\ Fault           \* requests.post (lines 110-134)
                   /\ local_path \in fs.audio \/ ~Escapes(DiskCheck(free))
                   /\ stage("Transcribing audio...")
                   /\ fs' = [fs EXCEPT !.audio = @ \cup {local_path}]
                   /\ Throw(i, "Transcription error: HTTPError")
        /\ UNCHANGED status_file /\ WorkerFrame

\* the step for each answer of shutil.disk_usage
Begin(i) == \E free \in FreeSpace : BeginWith(i, free)

\* lines 138-213: one iteration of the poll loop, up to the sleep, on the
\* response d of the provider
PollGets(i, d) ==
    LET out == PollOutcome(d) IN
    /\ workers[i].pc = "poll"
    /\ IF TaskGone(i)
       THEN /\ Throw(i, "Transcription error: " \o KeyError(workers[i].task_id))
            /\ UNCHANGED background_tasks
       ELSE /\ SetTask(i, [message |-> "Transcription status: " \o d.v["status"].v])
            /\ CASE out.kind = "return" ->
                        workers' = [workers EXCEPT ![i].pc = "save_transcript",
                                                   ![i].transcript = out.value]
                 [] out.kind = "raise" ->
                        Throw(i, "Transcription error: " \o out.msg)
                 [] OTHER -> Goto(i, "sleep")
    /\ UNCHANGED <<status_file, fs, faults>> /\ WorkerFrame

\* the provider reports a terminal status
PollTerminal(i) == \E d \in ProviderResults : PollGets(i, d)

\* line 138-139: the request for the result fails
PollFails(i) ==
    /\ workers[i].pc = "poll"
    /\ Fault
    /\ Throw(i, "Transcription error: HTTPError")
    /\ UNCHANGED <<background_tasks, status_file, fs>> /\ WorkerFrame

Poll(i) == PollGets(i, Processing) \/ PollTerminal(i) \/ PollFails(i)

\* line 215: time.sleep(10), then the next iteration
Sleep(i) ==
    /\ workers[i].pc = "sleep"
    /\ Goto(i, "poll")
    /\ UNCHANGED <<background_tasks, status_file, fs, faults>> /\ WorkerFrame

TranscriptPath(episode) == FolderPath(episode) \o "/transcript.txt"

\* status = load_status() at lines 255 and 275
Loaded(w) ==
    IF load_status.raises THEN Raised(w, "JSONDecodeError")
    ELSE [w EXCEPT !.pc = "save_status", !.status = load_status.status]

\* lines 252-255: save_transcript, then load_status; open(..., "w") empties
\* the transcript file before write raises TypeError on what is no string
SaveTranscript(i) ==
    LET w == workers[i]
        file_path == TranscriptPath(w.episode)
        done == [w EXCEPT !.transcript = JNull]   \* not read again
    IN  /\ w.pc = "save_transcript"
        /\ \/ /\ Fault
              /\ workers' = [workers EXCEPT ![i] = Raised(done, "OSError")]
              /\ UNCHANGED fs
           \/ /\ UNCHANGED faults
              /\ IF w.transcript.t # "str"
                 THEN /\ fs' = [fs EXCEPT !.transcript = Put(@, file_path, <<>>)]
                      /\ workers' = [workers EXCEPT ![i] =
                             Raised(done, "write() argument must be str")]
                 ELSE /\ fs' = [fs EXCEPT !.transcript =
                                    Put(@, file_path, w.transcript.v)]
                      /\ workers' = [workers EXCEPT ![i] = Loaded(done)]
        /\ UNCHANGED <<background_tasks, status_file>> /\ WorkerFrame

\* the record with the status of the Task Record, which line 265 has not yet
\* set to completed, in place of the literal of line 257
StatusRecordOfTask(w) ==
    IF w.handling
    THEN [status |-> "error", error |-> w.exc,
          podcast_name |-> w.episode.podcast_name,
          episode_title |-> w.episode.title]
    ELSE [status |-> IF w.task_id \in DOMAIN background_tasks
                     THEN background_tasks[w.task_id].status ELSE "running",
          transcript_path |-> TranscriptPath(w.episode),
          podcast_name |-> w.episode.podcast_name,
          episode_title |-> w.episode.title]

\* lines 256-262 and 276-282: the record the worker puts under its episode
\* (completed_at and failed_at, which nothing reads, are left out)
StatusRecord(w) ==
    IF w.handling
    THEN [status |-> "error", error |-> w.exc,
          podcast_name |-> w.episode.podcast_name,
          episode_title |-> w.episode.title]
    ELSE [status |-> "completed", transcript_path |-> TranscriptPath(w.episode),
          podcast_name |-> w.episode.podcast_name,
          episode_title |-> w.episode.title]

\* lines 256-263 and 276-283 up to open(STATUS_FILE, 'w'), which truncates
SaveStatusOpen(i) ==
    /\ workers[i].pc = "save_status"
    /\ \/ /\ workers' = [workers EXCEPT
                 ![i].pc = "dump",
                 ![i].status = Put(@, workers[i].episode.id,
                                   StatusRecord(workers[i]))]
          /\ status_file' = EmptyFile
          /\ UNCHANGED faults
       \/ /\ Fault
          /\ workers' = [workers EXCEPT ![i] =
                 Raised([@ EXCEPT !.status = <<>>], "OSError")]
          /\ UNCHANGED status_file
    /\ UNCHANGED <<background_tasks, fs>> /\ WorkerFrame

\* line 72: json.dump and the close of the file.  Written from offset 0: onto
\* what another writer put there since this one's open, the result is this
\* document or, when it is the shorter one, a garbled file.  The worker's
\* locals are not read again.
SaveStatusDump(i) ==
    /\ workers[i].pc = "dump"
    /\ \/ status_file' = WholeFile(workers[i].status)
       \/ /\ status_file.state # "empty"
          /\ status_file' = GarbledFile
    /\ workers' = [workers EXCEPT
          ![i].pc = IF workers[i].handling THEN "done" ELSE "mark_completed",
          ![i].status = <<>>,
          ![i].exc = ""]
    /\ UNCHANGED <<background_tasks, fs, faults>> /\ WorkerFrame

\* line 265
MarkCompleted(i) ==
    /\ workers[i].pc = "mark_completed"
    /\ IF TaskGone(i) THEN ThrowKeyError(i)
       ELSE SetTask(i, [status |-> "completed"]) /\ Goto(i, "completed_msg")
    /\ UNCHANGED <<status_file, fs, faults>> /\ WorkerFrame

\* line 266, and the return
CompletedMessage(i) ==
    /\ workers[i].pc = "completed_msg"
    /\ IF TaskGone(i) THEN ThrowKeyError(i)
       ELSE /\ SetTask(i, [message |-> "Transcription complete: "
                                           \o TranscriptPath(workers[i].episode)])
            /\ Goto(i, "done")
    /\ UNCHANGED <<status_file, fs, faults>> /\ WorkerFrame

\* line 271
MarkError(i) ==
    /\ workers[i].pc = "except"
    /\ IF TaskGone(i) THEN ThrowKeyError(i)
       ELSE SetTask(i, [status |-> "error"]) /\ Goto(i, "error_msg")
    /\ UNCHANGED <<status_file, fs, faults>> /\ WorkerFrame

\* lines 272-275: the message, then load_status
ErrorMessage(i) ==
    /\ workers[i].pc = "error_msg"
    /\ IF TaskGone(i) THEN ThrowKeyError(i)
       ELSE /\ SetTask(i, [message |-> "Error: " \o workers[i].exc])
            /\ workers' = [workers EXCEPT ![i] = Loaded(@)]
    /\ UNCHANGED <<status_file, fs, faults>> /\ WorkerFrame

WorkerStep(i) ==
    \/ Begin(i) \/ Poll(i) \/ Sleep(i)
    \/ SaveTranscript(i) \/ SaveStatusOpen(i)
    \/ SaveStatusDump(i) \/ MarkCompleted(i) \/ CompletedMessage(i)
    \/ MarkError(i) \/ ErrorMessage(i)

(***************************************************************************)
(* The running server.                                                     *)
(***************************************************************************)
DefaultLimit == 100
DefaultDays == 90

Init ==
    /\ now = T0
    /\ background_tasks = <<>>
    /\ status_file = MissingFile
    /\ workers = <<>>
    /\ fs = [audio |-> {}, transcript |-> <<>>]
    /\ resp = NoResp
    /\ faults = 0
    /\ feeds = Catalog
    /\ listing = NoListing
    /\ data = JNull
    /\ normalized = NotNormalized

Next ==
    \/ \E episode_id \in RequestIds, dt \in Elapsed :
          start_transcription(episode_id, dt)
    \/ \E dt \in Elapsed : get_episodes(DefaultLimit, DefaultDays, dt)
    \/ \E task_id \in DOMAIN background_tasks \cup {"transcribe_x_0"} :
          get_task_status(task_id)
    \/ \E episode_id \in RequestIds : get_transcript(episode_id)
    \/ get_all_status
    \/ \E i \in 1..Len(workers) : WorkerStep(i)

Spec == Init /\ [][Next]_vars

(***************************************************************************)
(* Liveness: every worker thread that can take a step is scheduled, and    *)
(* the provider reports a terminal status to a job that keeps polling.     *)
(***************************************************************************)
Scheduled(i) == i \in DOMAIN workers /\ WorkerStep(i)
Reported(i) == i \in DOMAIN workers /\ PollTerminal(i)

Fairness ==
    \A i \in 1..MaxWorkers : WF_vars(Scheduled(i)) /\ SF_vars(Reported(i))

SpecLive == Init /\ [][Next]_vars /\ Fairness

(***************************************************************************)
(* The normaliser on its own: the poll loop's handling of one response,    *)
(* for every response of a bounded family.                                 *)
(***************************************************************************)
\* the function with the pairs of f and of g (f first)
Merge(f, g) ==
    [k \in DOMAIN f \cup DOMAIN g |-> IF k \in DOMAIN f THEN f[k] ELSE g[k]]

\* no key, or the key k with one of the values
Opt(k, values) == {<<>>} \cup {[x \in {k} |-> v] : v \in values}

Texts == {S_hi, <<" ", "h", "i", NL>>, <<" ">>}

Items ==
    {JDict([speaker |-> JNum(1), text |-> T_(S_hi), start |-> JNum(61001)]),
     JDict([text |-> T_(<<" ">>)]),
     JDict([speaker |-> T_(<<"A">>), text |-> T_(<<"y", "o", " ">>)]),
     JDict([speaker |-> T_(<<"A">>), text |-> T_(<<"y", "o">>),
            start |-> JNum(65500)])}

ItemLists == UNION {[1..n -> Items] : n \in 0..MaxUtterances}

\* the dicts over the keys utterances, full_transcript and segments
ShapeDicts ==
    {Merge(Merge(u, f), g) :
        u \in Opt("utterances", {JList(l) : l \in ItemLists}),
        f \in Opt("full_transcript", {T_(x) : x \in Texts}),
        g \in Opt("segments", {JList(l) : l \in ItemLists})}

\* the values of "result": a shape at the root, or a transcription (a dict
\* of shapes or a string) with or without a full_transcript beside it
Results ==
    {JNull}
    \cup {JDict(d) : d \in ShapeDicts}
    \cup {JDict(Merge([transcription |-> x], f)) :
             x \in {JDict(d) : d \in ShapeDicts} \cup {T_(y) : y \in Texts},
             f \in Opt("full_transcript", {T_(y) : y \in Texts})}

Responses ==
    {Processing,
     JDict([status |-> T_("done")]),
     JDict([status |-> T_("error")]),
     JDict([status |-> T_("error"), error_code |-> JNum(500)])}
    \cup {DoneWith(r) : r \in Results}

InitNorm ==
    /\ now = T0
    /\ background_tasks = <<>>
    /\ status_file = MissingFile
    /\ workers = <<>>
    /\ fs = [audio |-> {}, transcript |-> <<>>]
    /\ resp = NoResp
    /\ faults = 0
    /\ feeds = <<>>
    /\ listing = NoListing
    /\ data \in Responses
    /\ normalized = NotNormalized

\* one iteration of the poll loop on the response data
Normalize ==
    /\ normalized = NotNormalized
    /\ normalized' = PollOutcome(data)
    /\ UNCHANGED <<now, background_tasks, status_file, workers, fs, resp,
                   faults, feeds, listing, data>>

SpecNorm == InitNorm /\ [][Normalize]_vars

(***************************************************************************)
(* GET /episodes on its own: one feed of up to MaxEntries entries, each    *)
(* with or without a date and an audio enclosure.                          *)
(***************************************************************************)
OldDate == 2 * Day
RecentDate == 9 * Day

EntryDates == {"absent", "none", "old", "recent"}

\* the k-th entry of the feed
FeedEntry(k, date, audio) ==
    JDict(Merge(
        [id |-> T_("g" \o ToString(k)),
         title |-> T_(<<"e">>),
         enclosures |-> JList(<<IF audio THEN AudioEnclosure("http://pod/a.mp3")
                                ELSE ImageEnclosure("http://pod/a.png")>>)],
        CASE date = "absent" -> <<>>
          [] date = "none" -> [published_parsed |-> JNull]
          [] date = "old" -> [published_parsed |-> JNum(OldDate)]
          [] OTHER -> [published_parsed |-> JNum(RecentDate)]))

EntryKinds == [date : EntryDates, audio : BOOLEAN]

FeedInputs ==
    {<<[name |-> <<"P", "o", "d">>, rss |-> "http://pod/rss",
        entries |-> [k \in 1..Len(kinds) |->
                        FeedEntry(k, kinds[k].date, kinds[k].audio)]]>> :
        kinds \in UNION {[1..n -> EntryKinds] : n \in 0..MaxEntries}}

\* the store: nothing yet, or the first entry's episode transcribed
StoreInputs ==
    {MissingFile,
     WholeFile(Put(<<>>, EpisodeId("http://pod/rss", FeedEntry(1, "absent", TRUE)),
                   [status |-> "completed",
                    transcript_path |-> "episodes/Pod_e/transcript.txt",
                    podcast_name |-> <<"P", "o", "d">>,
                    episode_title |-> <<"e">>]))}

Limits == {1, DefaultLimit}
DayCounts == {1, DefaultDays}

InitFeeds ==
    /\ now = T0
    /\ background_tasks = <<>>
    /\ status_file \in StoreInputs
    /\ workers = <<>>
    /\ fs = [audio |-> {}, transcript |-> <<>>]
    /\ resp = NoResp
    /\ faults = 0
    /\ feeds \in FeedInputs
    /\ listing = NoListing
    /\ data = JNull
    /\ normalized = NotNormalized

NextFeeds ==
    \E limit \in Limits, days \in DayCounts, dt \in Elapsed :
        get_episodes(limit, days, dt)

SpecFeeds == InitFeeds /\ [][NextFeeds]_vars

(***************************************************************************)
(* GET /episodes on two feeds of up to MaxPairEntries entries each; an     *)
(* entry may also be malformed: its enclosure has no type.                 *)
(***************************************************************************)
\* the k-th entry of a feed, with an enclosure whose .type raises
MalformedEntry(k) ==
    JDict([id |-> T_("g" \o ToString(k)),
           title |-> T_(<<"e">>),
           enclosures |-> JList(<<JDict([href |-> "http://pod/a.mp3"])>>)])

\* the kinds of one entry: those of EntryKinds, and the malformed one
PairEntryKinds == EntryKinds \cup {[date |-> "malformed", audio |-> TRUE]}

PairEntry(k, kind) ==
    IF kind.date = "malformed" THEN MalformedEntry(k)
    ELSE FeedEntry(k, kind.date, kind.audio)

SmallFeeds(name, rss) ==
    {[name |-> name, rss |-> rss,
      entries |-> [k \in 1..Len(kinds) |-> PairEntry(k, kinds[k])]] :
        kinds \in UNION {[1..n -> PairEntryKinds] : n \in 0..MaxPairEntries}}

FeedPairs ==
    {<<f, g>> : f \in SmallFeeds(<<"P", "o", "d">>, "http://pod/rss"),
                g \in SmallFeeds(<<"C", "a", "s", "t">>, "http://cast/rss")}

InitPairs ==
    /\ now = T0
    /\ background_tasks = <<>>
    /\ status_file = MissingFile
    /\ workers = <<>>
    /\ fs = [audio |-> {}, transcript |-> <<>>]
    /\ resp = NoResp
    /\ faults = 0
    /\ feeds \in FeedPairs
    /\ listing = NoListing
    /\ data = JNull
    /\ normalized = NotNormalized

SpecPairs == InitPairs /\ [][NextFeeds]_vars

(***************************************************************************)
(* Episode ids: GET /episodes and POST /transcribe on one feed of up to    *)
(* MaxIdEntries entries, each with or without an id, a title and a date.   *)
(***************************************************************************)
IdEntries ==
    {JDict(Merge(Merge(Merge(id, title), date),
                 [enclosures |-> JList(<<AudioEnclosure(href)>>)])) :
        id \in Opt("id", {T_("g1")}),
        title \in Opt("title", {T_(<<"a">>), T_(<<"b">>)}),
        date \in Opt("published_parsed", {JNum(RecentDate)}),
        href \in {"http://pod/1.mp3", "http://pod/2.mp3"}}

IdFeeds ==
    {<<[name |-> <<"P", "o", "d">>, rss |-> "http://pod/rss", entries |-> entries]>> :
        entries \in UNION {[1..n -> IdEntries] : n \in 1..MaxIdEntries}}

\* the ids a client may ask for: those of the entries, and one of no entry
IdRequests ==
    {EpisodeId("http://pod/rss", entry) : entry \in IdEntries} \cup {"x"}

InitIds ==
    /\ now = T0
    /\ background_tasks = <<>>
    /\ status_file = MissingFile
    /\ workers = <<>>
    /\ fs = [audio |-> {}, transcript |-> <<>>]
    /\ resp = NoResp
    /\ faults = 0
    /\ feeds \in IdFeeds
    /\ listing = NoListing
    /\ data = JNull
    /\ normalized = NotNormalized

\* the requests, all in the second the server starts in
NextIds ==
    \/ get_episodes(DefaultLimit, DefaultDays, 0)
    \/ \E episode_id \in IdRequests : start_transcription(episode_id, 0)

SpecIds == InitIds /\ [][NextIds]_vars

(***************************************************************************)
(* The claims.                                                             *)
(***************************************************************************)
\* the store holds a record for episode_id that says completed
StoredCompleted(episode_id) ==
    /\ status_file.state = "ok"
    /\ episode_id \in DOMAIN status_file.content
    /\ status_file.content[episode_id].status = "completed"

\* C1: a POST /transcribe for an episode whose record in the store says
\* completed is answered 400 and starts nothing: the registry, the workers
\* and the store are as they were.
C1_CompletedRejected ==
    [][\A episode_id \in RequestIds :
          (/\ resp'.op = "transcribe"
           /\ resp'.arg = episode_id
           /\ StoredCompleted(episode_id))
          => /\ resp'.code = 400
             /\ UNCHANGED <<background_tasks, workers, status_file>>]_vars

\* C1, its case: a request has just been turned down with 400 for an episode
\* the store holds as completed.
C1_Witness ==
    /\ resp.op = "transcribe"
    /\ resp.code = 400
    /\ StoredCompleted(resp.arg)

\* C2: no exception leaves a worker, and a job that ends after a failure
\* leaves an error record with the failure's message in the store under its
\* episode and its Task Record, while there, in status error.
C2_FailureRecorded ==
    [][\A i \in 1..Len(workers) :
          /\ workers'[i].pc # "escaped"
          /\ (/\ workers[i].pc = "dump"
              /\ workers[i].handling
              /\ workers'[i].pc = "done")
             => /\ status_file'.state = "ok"
                /\ workers[i].episode.id \in DOMAIN status_file'.content
                /\ status_file'.content[workers[i].episode.id].status = "error"
                /\ status_file'.content[workers[i].episode.id].error
                       = workers[i].exc
                /\ workers[i].task_id \in DOMAIN background_tasks'
                       => background_tasks'[workers[i].task_id].status = "error"]_vars

\* C3: the status of a Task Record moves only from pending to running and
\* from running to completed or to error.
C3_StatusOrder ==
    [][\A task_id \in DOMAIN background_tasks \cap DOMAIN background_tasks' :
          \/ background_tasks'[task_id].status = background_tasks[task_id].status
          \/ <<background_tasks[task_id].status, background_tasks'[task_id].status>>
                 \in {<<"pending", "running">>, <<"running", "completed">>,
                      <<"running", "error">>}]_vars

\* C4: the sweep of GET /episodes deletes exactly the records that are
\* completed or error and were created more than 3600 seconds before it, and
\* leaves the others as they were.
C4_SweepRemoves ==
    [][listing'.code # 0 =>
          /\ \A task_id \in DOMAIN background_tasks :
                (task_id \notin DOMAIN background_tasks')
                <=> (/\ background_tasks[task_id].status \in {"completed", "error"}
                     /\ now' - background_tasks[task_id].created_at > 3600)
          /\ \A task_id \in DOMAIN background_tasks' :
                /\ task_id \in DOMAIN background_tasks
                /\ background_tasks'[task_id] = background_tasks[task_id]]_vars

\* C4, its case: a sweep has just deleted the record of a job and kept a
\* pending or running record that is older than the retention window.
C4_Witness ==
    /\ listing.code # 0
    /\ \E i \in 1..Len(workers) : workers[i].task_id \notin DOMAIN background_tasks
    /\ \E task_id \in DOMAIN background_tasks :
          /\ background_tasks[task_id].status \in {"pending", "running"}
          /\ now - background_tasks[task_id].created_at > 3600

\* every record of the store says completed or error
StoreTerminal ==
    status_file.state = "ok" =>
        \A episode_id \in DOMAIN status_file.content :
            status_file.content[episode_id].status \in {"completed", "error"}

\* C5: every record of the store says completed or error, and the store
\* changes only in a step of a worker that is writing its outcome: after its
\* transcript was saved, or in its except block.
C5_StoreWrittenAtEnd ==
    /\ []StoreTerminal
    /\ [][status_file' # status_file =>
             \E i \in 1..Len(workers) :
                 /\ workers[i].pc \in {"save_status", "dump"}
                 /\ workers'[i].pc # workers[i].pc
                 /\ \/ workers[i].handling
                    \/ TranscriptPath(workers[i].episode) \in DOMAIN fs.transcript
                 /\ resp'.op = "none"
                 /\ listing'.code = 0]_vars

\* C5, its case: the store holds a completed record and an error record.
C5_Witness ==
    /\ status_file.state = "ok"
    /\ \E episode_id \in DOMAIN status_file.content :
          status_file.content[episode_id].status = "completed"
    /\ \E episode_id \in DOMAIN status_file.content :
          status_file.content[episode_id].status = "error"

\* C6: load_status, whenever it is called (every state allows GET /status),
\* finds a whole document: no file at all, or what one save wrote.
C6_LoadsWhole == ~load_status.raises

\* C7: a worker that is told done never goes on to sleep and poll again (a
\* result in a recognized shape is returned, any other raises).
C7_DoneEndsPolling ==
    [][\A i \in 1..Len(workers) :
          (/\ workers[i].pc = "poll"
           /\ workers'[i].pc = "sleep"
           /\ workers[i].task_id \in DOMAIN background_tasks')
          => background_tasks'[workers[i].task_id].message
                 # "Transcription status: done"]_vars

\* the entry has an audio enclosure
HasAudio(entry) ==
    \E j \in 1..Len(Get(entry, "enclosures", JList(<<>>)).v) :
        entry.v["enclosures"].v[j].v["type"][1] = "audio"

\* the entry has a parsed publication date
HasDate(entry) ==
    HasKey(entry, "published_parsed") /\ entry.v["published_parsed"].t = "num"

\* C8: of the entries with an audio enclosure, GET /episodes leaves out, before
\* the limit, those dated before now minus days, and takes in the undated.
C8_AgeFilter ==
    listing.code # 0 =>
        \A f \in 1..Len(feeds) : \A k \in 1..Len(feeds[f].entries) :
            LET entry == feeds[f].entries[k]
                listed == \E j \in 1..Len(listing.all_episodes) :
                              listing.all_episodes[j].id
                                  = EpisodeId(feeds[f].rss, entry)
            IN  HasAudio(entry) =>
                    /\ (/\ HasDate(entry)
                        /\ entry.v["published_parsed"].v < now - listing.days * Day)
                       => ~listed
                    /\ ~HasDate(entry) => listed

\* C9: under fair scheduling and a provider that reports a terminal status,
\* every job started ends: its worker stops and its Task Record, while
\* there, says completed or error.
C9_JobEnds ==
    \A i \in 1..MaxWorkers :
        (i \in DOMAIN workers)
        ~> (/\ i \in DOMAIN workers
            /\ workers[i].pc \in {"done", "escaped"}
            /\ workers[i].task_id \in DOMAIN background_tasks
                   => background_tasks[workers[i].task_id].status
                          \in {"completed", "error"})

\* C10: a done response whose result holds a full_transcript string and no
\* other shape, under transcription or at the root, is normalised to that
\* string as it is.
C10_FullTranscriptVerbatim ==
    (/\ normalized # NotNormalized
     /\ HasKey(data, "result")
     /\ data.v["status"].v = "done"
     /\ data.v["result"].t = "dict")
    => LET result == data.v["result"] IN
       /\ (/\ DOMAIN result.v = {"transcription"}
           /\ result.v["transcription"].t = "dict"
           /\ DOMAIN result.v["transcription"].v = {"full_transcript"})
          => normalized = Return(result.v["transcription"].v["full_transcript"])
       /\ DOMAIN result.v = {"full_transcript"}
          => normalized = Return(result.v["full_transcript"])

\* episode a comes strictly before episode b in the order of the listing:
\* dated before undated, and of two dated the later one first
ListedBefore(a, b) ==
    /\ a.pub_date_parsed.t = "num"
    /\ \/ b.pub_date_parsed.t # "num"
       \/ a.pub_date_parsed.v > b.pub_date_parsed.v

\* C11: GET /episodes succeeds with at most limit episodes, newest first and
\* the undated last, and they are the first limit of all the episodes that
\* passed the filter, in that order.
C11_SortedAndLimited ==
    listing.code # 0 =>
        /\ listing.code = 200
        /\ Len(listing.episodes) <= listing.limit
        /\ Len(listing.episodes) >= listing.limit
               \/ Len(listing.episodes) = Len(listing.all_episodes)
        /\ \A i, j \in 1..Len(listing.episodes) :
               i < j => ~ListedBefore(listing.episodes[j], listing.episodes[i])
        /\ \A i \in 1..Len(listing.episodes) :
               \E k \in 1..Len(listing.all_episodes) :
                   listing.all_episodes[k] = listing.episodes[i]
        /\ \A k \in 1..Len(listing.all_episodes) :
               \/ \E i \in 1..Len(listing.episodes) :
                      listing.episodes[i] = listing.all_episodes[k]
               \/ \A i \in 1..Len(listing.episodes) :
                      ~ListedBefore(listing.all_episodes[k], listing.episodes[i])

\* the entry loop raises on these entries: it comes to an entry whose
\* enclosure has no type before it breaks
RECURSIVE LoopRaises(_, _)
LoopRaises(entries, cutoff_date) ==
    /\ entries # <<>>
    /\ LET entry == Head(entries)
           audio == EntryAudio(entry)
           pub_date_parsed == PubDateParsed(entry)
       IN  \/ audio.exc
           \/ /\ \/ audio.url = ""
                 \/ ~(pub_date_parsed.t = "num" /\ pub_date_parsed.v < cutoff_date)
              /\ LoopRaises(Tail(entries), cutoff_date)

\* processing the feed raises, in the sort or in the entry loop
FeedFails(feed, cutoff_date) ==
    LET keys == [i \in 1..Len(feed.entries) |-> SortKey(feed.entries[i])] IN
    /\ feed.entries # <<>>
    /\ \/ SortRaises(keys)
       \/ LoopRaises(SortedDesc(KeyNumbers(keys), feed.entries), cutoff_date)

\* every episode of the sequence part is an episode of the sequence whole
Contributed(part, whole) ==
    \A i \in 1..Len(part) : \E k \in 1..Len(whole) : whole[k] = part[i]

\* the other feeds' episodes are in all_episodes when feed f fails
OthersContributed(f, cutoff_date) ==
    \A g \in 1..Len(feeds) :
        g # f => Contributed(FeedEpisodes(feeds[g], load_status.status, cutoff_date),
                             listing.all_episodes)

\* C12: when the processing of one feed fails, GET /episodes still
\* contributes every episode of the other feeds, and the request succeeds.
C12_FailureIsolated ==
    listing.code # 0 =>
        \A f \in 1..Len(feeds) :
            FeedFails(feeds[f], now - listing.days * Day) =>
                /\ listing.code = 200
                /\ OthersContributed(f, now - listing.days * Day)

\* worker i's step takes it to the download with the audio not yet on the
\* disk and less than MinFree bytes free
LowDiskDownload(i) ==
    /\ \E free \in FreeSpace : free < MinFree /\ BeginWith(i, free)
    /\ ~TaskGone(i)
    /\ LocalPath(workers[i].episode) \notin fs.audio
    /\ background_tasks'[workers[i].task_id].message # "Starting transcription..."

\* C13: a job that comes to the download with the audio not yet on the disk
\* and less than 50 MB free fails at once: the audio is not fetched, and the
\* job goes to its failure handling with the disk-space error.
C13_LowDiskFailsFast ==
    [][\A i \in 1..Len(workers) :
          LowDiskDownload(i) =>
              /\ fs'.audio = fs.audio
              /\ workers'[i].pc = "except"
              /\ workers'[i].exc = "Insufficient disk space"]_vars

\* the texts a completing job saves: the strings the normalisation returns
\* for the provider's terminal responses
SavedTexts ==
    {PollOutcome(d).value.v :
        d \in {r \in ProviderResults : /\ PollOutcome(r).kind = "return"
                                       /\ PollOutcome(r).value.t = "str"}}

\* C14: GET /transcript/{episode_id} answers 404 when the store has no record
\* of the episode, 400 when the record is not completed, 404 when it is
\* completed and the transcript file is missing, and otherwise 200 with the
\* text the completing job saved.
C14_TranscriptAnswers ==
    \A episode_id \in RequestIds :
        LET store == status_file.content
            code == TranscriptCode(episode_id)
        IN  IF episode_id \notin DOMAIN store THEN code = 404
            ELSE IF store[episode_id].status # "completed" THEN code = 400
            ELSE IF store[episode_id].transcript_path \notin DOMAIN fs.transcript
            THEN code = 404
            ELSE code = 200 /\ TranscriptBody(episode_id) \in SavedTexts

\* what the id of an entry is to be made of: the id the provider supplies,
\* or else the title, "Unknown Title" when there is none
IdSource(entry) ==
    IF HasKey(entry, "id") /\ entry.v["id"].v # ""
    THEN <<"id", entry.v["id"].v>>
    ELSE <<"title", IF HasKey(entry, "title") THEN entry.v["title"].v
                    ELSE S_UnknownTitle>>

\* the episodes GET /episodes makes of the feeds in this state
ListedNow == AllEpisodes(feeds, load_status.status, now - DefaultDays * Day)

\* the episode GET /episodes makes of the entry when the feed at rss holds
\* nothing else
ListedAlone(rss, entry) ==
    AllEpisodes(<<[name |-> <<"P", "o", "d">>, rss |-> rss, entries |-> <<entry>>]>>,
                load_status.status, now - DefaultDays * Day)[1]

\* the episode is the one GET /episodes makes of this entry of the feeds
ListedFor(episode, entry) ==
    /\ episode.title = EntryTitle(entry)
    /\ episode.audio_url = EntryAudio(entry).url
    /\ episode.pub_date_parsed = PubDateParsed(entry)

\* the id of each entry of the feeds in the listing listed: it is listed
\* under the id GET /episodes gives to any entry with the same id or title
\* polled alone, and POST /transcribe computes the same id for it
IdsStableIn(listed) ==
    \A f \in 1..Len(feeds) : \A k \in 1..Len(feeds[f].entries) :
        /\ \A entry \in IdEntries :
               IdSource(entry) = IdSource(feeds[f].entries[k]) =>
                   \E i \in 1..Len(listed) :
                       /\ ListedFor(listed[i], feeds[f].entries[k])
                       /\ listed[i].id = ListedAlone(feeds[f].rss, entry).id
        /\ \A i \in 1..Len(listed) :
               ListedFor(listed[i], feeds[f].entries[k]) =>
                   \/ listed[i].id
                         = CurrentEpisodeId(feeds[f].rss, feeds[f].entries[k])
                   \/ \E j \in 1..Len(feeds[f].entries) :
                          /\ j # k
                          /\ ListedFor(listed[i], feeds[f].entries[j])

\* POST /transcribe finds the episode under each id of the listing listed
PostFinds(listed) ==
    (resp.op = "transcribe" /\ \E i \in 1..Len(listed) : listed[i].id = resp.arg)
        => resp.code = 200

\* C15: the id of an episode is a function of the feed URL and of the
\* entry's id, or of its title when it has no id: GET /episodes lists each
\* entry of the feed under the id it gives to any entry with the same id or
\* title polled alone, whatever the other fields and the other entries are;
\* POST /transcribe computes the same id for the entry, and finds the
\* episode under each id that GET /episodes lists.
C15_IdStable == IdsStableIn(ListedNow) /\ PostFinds(ListedNow)

\* C15, its case: POST /transcribe has started a job for an entry that has no
\* id, under the id made of its title, in a feed of two entries.
C15_Witness ==
    /\ resp.op = "transcribe"
    /\ resp.code = 200
    /\ Len(feeds[1].entries) = 2
    /\ \E k \in 1..2 :
           /\ ~HasKey(feeds[1].entries[k], "id")
           /\ EpisodeId(feeds[1].rss, feeds[1].entries[k]) = resp.arg

\* worker i has done its terminal write to the store
HasWritten(i) == workers[i].pc \in {"mark_completed", "completed_msg", "done"}

\* C16: the store is loaded, changed and saved without a lock, and the last
\* writer wins on the whole file: a save leaves in the store the records the
\* writer loaded before, with its own, and nothing of what was saved since;
\* so an update can be lost (C16_Witness).
C16_LastWriterWins ==
    [][\A i \in 1..Len(workers) :
          (/\ workers[i].pc = "dump"
           /\ workers'[i].pc # "dump"
           /\ status_file'.state = "ok")
          => /\ status_file'.content = workers[i].status
             /\ workers[i].episode.id \in DOMAIN status_file'.content]_vars

\* C16, its case: two jobs for two episodes have both done their terminal
\* write, and the store holds the record of one of them only.
C16_Witness ==
    \E i, j \in 1..Len(workers) :
        /\ workers[i].episode.id # workers[j].episode.id
        /\ HasWritten(i) /\ HasWritten(j)
        /\ status_file.state = "ok"
        /\ workers[i].episode.id \in DOMAIN status_file.content
        /\ workers[j].episode.id \notin DOMAIN status_file.content

\* the recognized shapes the dict c offers
ShapesOf(c) == {"utterances", "full_transcript", "segments"} \cap DOMAIN c.v

\* the rendering of the first shape of c in the order utterances,
\* full_transcript, segments
FirstShape(c) ==
    IF HasKey(c, "utterances") THEN RenderUtterances(c.v["utterances"])
    ELSE IF HasKey(c, "full_transcript") THEN Return(c.v["full_transcript"])
    ELSE RenderSegments(c.v["segments"])

\* the dict whose shapes are read: the transcription object, or the result
\* that has none
ShapeHolder(result) ==
    IF HasKey(result, "transcription") THEN result.v["transcription"] ELSE result

\* C17: of two or more recognized shapes in a done response, the first in
\* the order utterances, full_transcript, segments is rendered and no other,
\* under the transcription object and at the root of the result alike.
C17_ShapeOrder ==
    (/\ normalized # NotNormalized
     /\ data.v["status"].v = "done"
     /\ HasKey(data, "result")
     /\ data.v["result"].t = "dict"
     /\ ShapeHolder(data.v["result"]).t = "dict"
     /\ Cardinality(ShapesOf(ShapeHolder(data.v["result"]))) >= 2)
    => normalized = FirstShape(ShapeHolder(data.v["result"]))

\* MM:SS.mmm of a start time of ms milliseconds
ClockOf(ms) ==
    PadNum(ms \div 60000, 2) \o <<":">> \o PadNum((ms \div 1000) % 60, 2)
        \o <<".">> \o PadNum(ms % 1000, 3)

\* the block of the utterance u, whose text is not blank
BlockOf(u) ==
    S_Speaker \o Str(Get(u, "speaker", T_(S_Unknown))) \o <<" ", "|", " ">>
        \o ClockOf(Get(u, "start", JNum(0)).v) \o <<NL>> \o Get(u, "text", T_(<<>>)).v

\* the blocks of the utterances of l whose text is not blank, in the order
\* of l, with one empty line between two of them
RECURSIVE BlocksOf(_)
BlocksOf(l) ==
    IF l = <<>> THEN <<>>
    ELSE IF Strip(Get(Head(l), "text", T_(<<>>)).v) = <<>> THEN BlocksOf(Tail(l))
    ELSE LET rest == BlocksOf(Tail(l)) IN
         IF rest = <<>> THEN BlockOf(Head(l))
         ELSE BlockOf(Head(l)) \o <<NL, NL>> \o rest

\* C18: an utterance list is normalised to the blocks
\* "Speaker {speaker} | MM:SS.mmm", newline, text of its utterances whose
\* text is not blank, in list order and one empty line apart, the whole
\* trimmed; MM, SS and mmm are the minutes, seconds and milliseconds of the
\* start time.
C18_UtteranceBlocks ==
    (/\ normalized # NotNormalized
     /\ data.v["status"].v = "done"
     /\ HasKey(data, "result")
     /\ data.v["result"].t = "dict"
     /\ ShapeHolder(data.v["result"]).t = "dict"
     /\ HasKey(ShapeHolder(data.v["result"]), "utterances"))
    => normalized
          = Return(T_(Strip(BlocksOf(
                ShapeHolder(data.v["result"]).v["utterances"].v))))

\* C19: an episode whose record in the store says completed keeps a
\* completed record: no step leaves the store, as a whole document, without
\* the record or with an error record in its place.
C19_CompletedKept ==
    [][\A episode_id \in RequestIds :
          (StoredCompleted(episode_id) /\ status_file'.state = "ok")
          => /\ episode_id \in DOMAIN status_file'.content
             /\ status_file'.content[episode_id].status = "completed"]_vars

\* worker i has yet to read or update its Task Record: it has not ended, and
\* it is not past the last message update of its except block
StillWrites(i) ==
    /\ workers[i].pc \notin {"done", "escaped"}
    /\ ~(workers[i].handling /\ workers[i].pc \in {"save_status", "dump"})

\* C20: no step removes from the registry the Task Record of a job whose
\* worker has yet to read or update it, however long the job takes.
C20_SweepSparesLiveTasks ==
    [][\A i \in 1..Len(workers) :
          (StillWrites(i) /\ workers[i].task_id \in DOMAIN background_tasks)
          => workers[i].task_id \in DOMAIN background_tasks']_vars

\* the Task Record of worker i is there and says completed
TaskCompleted(i) ==
    /\ workers[i].task_id \in DOMAIN background_tasks
    /\ background_tasks[workers[i].task_id].status = "completed"

\* C21: while the Task Record of a job says completed, the transcript file
\* of the job is written and the store, whenever it is a whole document,
\* holds a completed record under the job's episode.
C21_StoredBeforeCompleted ==
    \A i \in 1..Len(workers) :
        TaskCompleted(i) =>
            /\ TranscriptPath(workers[i].episode) \in DOMAIN fs.transcript
            /\ status_file.state = "ok" => StoredCompleted(workers[i].episode.id)

\* the step is an accepted POST /transcribe: lines 475-487 start a worker
Accepted == Len(workers') = Len(workers) + 1

\* C22: every accepted POST /transcribe allocates a task id that is not a
\* key of the registry and that no worker started before holds, so no record
\* is overwritten and no two workers update the same Task Record.
C22_OwnTaskRecord ==
    [][Accepted =>
          /\ workers'[Len(workers')].task_id \notin DOMAIN background_tasks
          /\ \A i \in 1..Len(workers) :
                 workers[i].task_id # workers'[Len(workers')].task_id]_vars
====
